---- MODULE Spec2Model ----
(***************************************************************************)
(* The Typesense export job of openbeta-graphql                            *)
(* (src/db/export/Typesense/Typesense.ts): onDBConnected checks the        *)
(* environment, then runs the climbs pass and the areas pass as the flags  *)
(* ask, each pass being checkCollection (delete, create) followed by a     *)
(* paged read of the source and one bulk import per page.                  *)
(*                                                                         *)
(* One step of the model is one awaited call of the job.  The source       *)
(* store, the command line and the environment are drawn in Init; the      *)
(* destination's answers (success or failure of a call) are drawn at each  *)
(* call.                                                                   *)
(***************************************************************************)
EXTENDS Integers, Sequences, FiniteSets, TLC

VARIABLES
    envNode,      \* process.env.TYPESENSE_NODE ?? ''  ("" when absent)
    envKey,       \* process.env.TYPESENSE_API_KEY ?? ''
    argv,         \* the flags of process.argv
    chunkSize,    \* the page size (const chunkSize)
    areas,        \* the source 'areas' collection, in scan order
    climbs,       \* the source 'climbs' collection, in scan order
    dest,         \* the destination: collection name -> NoCollection or its documents
    pc,           \* where onDBConnected stands
    pass,         \* the pass that is running: "none", "climbs" or "areas"
    pageNum,      \* the generator's pageNum
    page,         \* the page the generator yielded last
    exitCode,     \* the code process.exit was called with, NoExit before
    log,          \* the calls this invocation has issued, in order
    run,          \* which invocation of the job this is
    faults,       \* injected destination failures so far
    runFaults,    \* injected destination failures in this invocation
    prevDest,     \* the destination as the previous invocation left it
    prevFaults    \* the injected failures of the previous invocation

vars == << envNode, envKey, argv, chunkSize, areas, climbs, dest, pc, pass,
           pageNum, page, exitCode, log, run, faults, runFaults, prevDest,
           prevFaults >>

----------------------------------------------------------------------------
(* Bounds of the model *)

MaxAreas == 3
MaxClimbs == 2
MaxChunkSize == 2
MaxFaults == 2
MaxRuns == 2
MaxCoord == 1

----------------------------------------------------------------------------
(* Values *)

NoExit == -1
Missing == "undefined"

\* gracefulExit's default exit code (gracefulExit is imported from ../../index.js)
DefaultExitCode == 0

\* schema.name of the two schemas of TypesenseSchemas.js
climbSchema == "climbs"
areaSchema == "areas"

Min(a, b) == IF a < b THEN a ELSE b

\* ceil(n / d) for d >= 1
CeilDiv(n, d) == (n + d - 1) \div d

RECURSIVE Flatten(_)
Flatten(ss) == IF ss = << >> THEN << >> ELSE Head(ss) \o Flatten(Tail(ss))

----------------------------------------------------------------------------
(* The source store *)

Names == << "A", "B", "C", "D", "E", "F" >>

\* the identifiers as the strings the ancestors field holds
Uuids == << "id-1", "id-2", "id-3", "id-4", "id-5", "id-6" >>

\* An identifier is either a binary UUID, which has toUUID(), or a string,
\* which has not; the two never compare equal
Muuid(n) == << "muuid", n >>
StringId(n) == << "string", n >>
HasToUUID(id) == id[1] = "muuid"

\* the area_id of the i-th area, and an identifier no area has
AreaId(i) == Muuid(100 + i)
NoSuchArea == AreaId(0)

\* The i-th area of a chain A > B > C ..., as a document of the type
\* updateAreaTypesense's mongoToTypeSense reads (AreaType): metadata.area_id
\* a binary UUID, metadata.lnglat a point [longitude, latitude],
\* metadata.leaf, metadata.isDestination, totalClimbs and density at the top;
\* its pathTokens are the names from the root down to itself
AreaRec(i) ==
    [ area_id       |-> AreaId(i),
      area_name     |-> Names[i],
      ancestors     |-> SubSeq(Uuids, 1, i),
      pathTokens    |-> SubSeq(Names, 1, i),
      lnglat        |-> << 10 + i, 40 + i >>,
      leaf          |-> FALSE,
      isDestination |-> FALSE,
      totalClimbs   |-> 0,
      density       |-> 0 ]

\* The i-th area of the same chain as a document of AreaSchema: area_name,
\* ancestors and pathTokens as above, metadata.area_id a String,
\* metadata.lat and metadata.lng two Numbers (there is no metadata.lnglat
\* and no metadata.isDestination), density and totalClimbs under aggregate
AreaSchemaRec(i) ==
    [ area_id    |-> StringId(100 + i),
      area_name  |-> Names[i],
      ancestors  |-> SubSeq(Uuids, 1, i),
      pathTokens |-> SubSeq(Names, 1, i),
      lat        |-> 40 + i,
      lng        |-> 10 + i,
      leaf       |-> FALSE,
      aggregate  |-> [ density |-> 0, totalClimbs |-> 0 ] ]

\* The j-th climb, owned by the area whose area_id is ref; every other climb
\* has no description and no first-ascent text
ClimbRec(j, ref) ==
    [ climb_id    |-> Muuid(200 + j),
      name        |-> j,
      areaRef     |-> ref,
      description |-> IF j % 2 = 1 THEN Missing ELSE "text",
      fa          |-> IF j % 2 = 1 THEN Missing ELSE "fa",
      yds         |-> "5.9",
      lnglat      |-> << 20 + j, 50 + j >> ]

\* the areas collections: of documents of the type the transformer reads, or
\* of documents as AreaSchema declares them
AreaSources ==
    { [i \in 1..n |-> AreaRec(i)] : n \in 0..MaxAreas }
        \cup { [i \in 1..n |-> AreaSchemaRec(i)] : n \in 1..MaxAreas }

\* The areaRef of the j-th of the climbs of a store whose areas are as: the
\* area_id of its owner, the climbs going round the areas in turn from the
\* deepest one up, but for the climb at position d (if any), whose areaRef
\* matches no area; with no area at all, no areaRef matches
ClimbRef(j, as, d) ==
    IF Len(as) = 0 \/ j = d
      THEN NoSuchArea
      ELSE as[Len(as) - ((j - 1) % Len(as))].area_id

ClimbSources(as) ==
    UNION { { [j \in 1..m |-> ClimbRec(j, ClimbRef(j, as, d))] : d \in 0..m }
            : m \in 0..MaxClimbs }

\* $lookup from 'areas' on metadata.areaRef = metadata.area_id, projected to
\* ancestors and pathTokens
Lookup(c) ==
    LET hit == SelectSeq(areas, LAMBDA a : a.area_id = c.areaRef)
    IN  [k \in 1..Len(hit) |->
            [ ancestors |-> hit[k].ancestors, pathTokens |-> hit[k].pathTokens ]]

\* Unwind as it would be with preserveNullAndEmptyArrays (the left join of the
\* comment above getAllClimbs): a climb whose lookup is empty is kept, without
\* the area's fields
Unwind_PreserveEmpty(c) ==
    LET as == IF Lookup(c) = << >>
                THEN << [ ancestors |-> << >>, pathTokens |-> << >> ] >>
                ELSE Lookup(c)
    IN  [k \in 1..Len(as) |->
            [ climb_id    |-> c.climb_id,
              name        |-> c.name,
              areaRef     |-> c.areaRef,
              description |-> c.description,
              fa          |-> c.fa,
              yds         |-> c.yds,
              lnglat      |-> c.lnglat,
              ancestors   |-> as[k].ancestors,
              pathTokens  |-> as[k].pathTokens ]]

\* $unwind '$area' and $replaceWith $mergeObjects ['$$ROOT', '$area']: one
\* record per looked-up area, none for a climb whose lookup is empty
Unwind(c) ==
    LET as == Lookup(c)
    IN  [k \in 1..Len(as) |->
            [ climb_id    |-> c.climb_id,
              name        |-> c.name,
              areaRef     |-> c.areaRef,
              description |-> c.description,
              fa          |-> c.fa,
              yds         |-> c.yds,
              lnglat      |-> c.lnglat,
              ancestors   |-> as[k].ancestors,
              pathTokens  |-> as[k].pathTokens ]]

\* the aggregate of getAllClimbs before .skip and .limit
JoinedClimbs == Flatten([j \in 1..Len(climbs) |-> Unwind(climbs[j])])

\* SkipLimit as it would be with .skip(pageNum) for .skip(pageNum * chunkSize)
SkipLimit_SkipsPageNum(src, n) ==
    SubSeq(src, n + 1, Min(n + chunkSize, Len(src)))

\* .skip(pageNum * chunkSize).limit(chunkSize)
SkipLimit(src, n) ==
    SubSeq(src, n * chunkSize + 1, Min((n + 1) * chunkSize, Len(src)))

\* the page getAllClimbs awaits at pageNum n
getAllClimbs(n) == SkipLimit(JoinedClimbs, n)

\* the page getAllAreas awaits at pageNum n
getAllAreas(n) == SkipLimit(areas, n)

\* dataGenerator of the running pass
dataGenerator(p, n) == IF p = "climbs" THEN getAllClimbs(n) ELSE getAllAreas(n)

----------------------------------------------------------------------------
(* The transformers *)

\* x ?? ''
OrEmpty(x) == IF x = Missing THEN "" ELSE x

\* toUUID().toString() of a binary UUID
ToUUID(id) == << "uuid", id[2] >>

geoToLatLng(coordinates) == << coordinates[2], coordinates[1] >>

\* climbToTypeSense as it would be with areaNames taken from doc.ancestors
climbToTypeSense_Ancestors(doc) ==
    [ climbUUID  |-> ToUUID(doc.climb_id),
      climbName  |-> doc.name,
      climbDesc  |-> OrEmpty(doc.description),
      fa         |-> OrEmpty(doc.fa),
      areaNames  |-> doc.ancestors,
      grade      |-> doc.yds,
      cragLatLng |-> geoToLatLng(doc.lnglat) ]

climbToTypeSense(doc) ==
    [ climbUUID  |-> ToUUID(doc.climb_id),
      climbName  |-> doc.name,
      climbDesc  |-> OrEmpty(doc.description),
      fa         |-> OrEmpty(doc.fa),
      areaNames  |-> doc.pathTokens,
      grade      |-> doc.yds,
      cragLatLng |-> geoToLatLng(doc.lnglat) ]

areaToTypeSense(doc) ==
    [ areaUUID      |-> ToUUID(doc.area_id),
      name          |-> OrEmpty(doc.area_name),
      pathTokens    |-> doc.pathTokens,
      areaLatLng    |-> geoToLatLng(doc.lnglat),
      leaf          |-> doc.leaf,
      isDestination |-> doc.isDestination,
      totalClimbs   |-> doc.totalClimbs,
      density       |-> doc.density ]

\* Whether mongoToTypeSense throws a TypeError on doc: the identifier has no
\* toUUID() (doc.metadata.area_id.toUUID is not a function), or there is no
\* metadata.lnglat for geoToLatLng to destructure
climbThrows(doc) == ~HasToUUID(doc.climb_id) \/ "lnglat" \notin DOMAIN doc
areaThrows(doc) == ~HasToUUID(doc.area_id) \/ "lnglat" \notin DOMAIN doc

\* convert of the running pass
convert(p, doc) == IF p = "climbs" THEN climbToTypeSense(doc) ELSE areaToTypeSense(doc)

convertThrows(p, doc) == IF p = "climbs" THEN climbThrows(doc) ELSE areaThrows(doc)

\* chunk.map(convert)
MapConvert(p, chunk) == [k \in 1..Len(chunk) |-> convert(p, chunk[k])]

\* chunk.map(convert) throws: convert throws on one of the records
MapThrows(p, chunk) == \E k \in 1..Len(chunk) : convertThrows(p, chunk[k])

\* schema of the running pass (the second argument of processMongoCollection)
SchemaOf(p) == IF p = "climbs" THEN climbSchema ELSE areaSchema

\* the schema processMongoCollection hands to checkCollection
CheckCollectionSchema(schema) == areaSchema

----------------------------------------------------------------------------
(* The destination *)

\* a document left in the destination by something other than a pass over the
\* current source
StaleDoc == [ id |-> "stale" ]

Collections == { climbSchema, areaSchema }

\* a collection that does not exist, and one that exists and holds docs
NoCollection == [ exists |-> FALSE, docs |-> << >> ]
Collection(docs) == [ exists |-> TRUE, docs |-> docs ]

InitialCollections == { NoCollection, Collection(<< StaleDoc >>) }

\* one call issued by the job: a destination call or a page read
Call(op, p, coll, ok, n, docs) ==
    [ op |-> op, pass |-> p, coll |-> coll, ok |-> ok, page |-> n, docs |-> docs ]

\* The answers the destination can give to a call.  A call may fail for a
\* failure of the destination or the network (an injected fault, at most
\* MaxFaults of them); besides, deleting a collection that does not exist,
\* creating one that exists and importing into one that does not exist fail.
Injectable == IF faults < MaxFaults THEN { FALSE } ELSE { }

\* client.collections(name).delete()
DeleteOutcomes(name) == IF dest[name].exists THEN { TRUE } \cup Injectable ELSE { FALSE }

\* client.collections().create(schema)
CreateOutcomes(name) == IF dest[name].exists THEN { FALSE } ELSE { TRUE } \cup Injectable

\* client.collections(name).documents().import(chunk)
ImportOutcomes(name) == IF dest[name].exists THEN { TRUE } \cup Injectable ELSE { FALSE }

\* whether the answer ok to a call on name is an injected fault
IsInjected(ok, natural) == IF ~ok /\ natural THEN 1 ELSE 0

----------------------------------------------------------------------------
(* The job *)

Env == { "", "typesense.example" }
Keys == { "", "xyz" }
Flags == SUBSET { "--climbs", "--areas" }

Init ==
    /\ envNode \in Env
    /\ envKey \in Keys
    /\ argv \in Flags
    /\ chunkSize \in 1..MaxChunkSize
    /\ areas \in AreaSources
    /\ climbs \in ClimbSources(areas)
    /\ dest \in [Collections -> InitialCollections]
    /\ pc = "start"
    /\ pass = "none"
    /\ pageNum = 0
    /\ page = << >>
    /\ exitCode = NoExit
    /\ log = << >>
    /\ run = 1
    /\ faults = 0
    /\ runFaults = 0
    /\ prevDest = dest
    /\ prevFaults = 0

source == << envNode, envKey, argv, chunkSize, areas, climbs >>
ghosts == << run, prevDest, prevFaults >>

\* gracefulExit(exitCode): the process ends with that code
gracefulExit(code) ==
    /\ pc' = "exited"
    /\ exitCode' = code

\* OnDBConnected as it would be with && for || in the environment check
OnDBConnected_BothMissing ==
    /\ pc = "start"
    /\ IF envNode = "" /\ envKey = ""
         THEN gracefulExit(1)
         ELSE pc' = "checkClimbs" /\ exitCode' = exitCode
    /\ UNCHANGED << source, ghosts, dest, pass, pageNum, page, log, faults, runFaults >>

\* onDBConnected up to the Typesense client: the environment check
OnDBConnected ==
    /\ pc = "start"
    /\ IF envNode = "" \/ envKey = ""
         THEN gracefulExit(1)
         ELSE pc' = "checkClimbs" /\ exitCode' = exitCode
    /\ UNCHANGED << source, ghosts, dest, pass, pageNum, page, log, faults, runFaults >>

\* if (process.argv.includes('--climbs')) await updateClimbTypesense(typesense)
UpdateClimbTypesense ==
    /\ pc = "checkClimbs"
    /\ IF "--climbs" \in argv
         THEN pass' = "climbs" /\ pc' = "delete"
         ELSE pass' = pass /\ pc' = "checkAreas"
    /\ UNCHANGED << source, ghosts, dest, pageNum, page, exitCode, log, faults, runFaults >>

\* if (process.argv.includes('--areas')) await updateAreaTypesense(typesense)
UpdateAreaTypesense ==
    /\ pc = "checkAreas"
    /\ IF "--areas" \in argv
         THEN pass' = "areas" /\ pc' = "delete"
         ELSE pass' = pass /\ pc' = "exit"
    /\ UNCHANGED << source, ghosts, dest, pageNum, page, exitCode, log, faults, runFaults >>

\* DeleteCollection as it would be with gracefulExit() in its catch block
DeleteCollection_FatalOnFailure ==
    /\ pc = "delete"
    /\ LET name == CheckCollectionSchema(SchemaOf(pass))
       IN  \E ok \in DeleteOutcomes(name) :
             /\ dest' = IF ok THEN [dest EXCEPT ![name] = NoCollection] ELSE dest
             /\ log' = Append(log, Call("delete", pass, name, ok, 0, << >>))
             /\ faults' = faults + IsInjected(ok, dest[name].exists)
             /\ runFaults' = runFaults + IsInjected(ok, dest[name].exists)
             /\ IF ok
                  THEN pc' = "create" /\ exitCode' = exitCode
                  ELSE gracefulExit(DefaultExitCode)
    /\ UNCHANGED << source, ghosts, pass, pageNum, page >>

\* checkCollection, first try block: drop the collection, log a failure
DeleteCollection ==
    /\ pc = "delete"
    /\ LET name == CheckCollectionSchema(SchemaOf(pass))
       IN  \E ok \in DeleteOutcomes(name) :
             /\ dest' = IF ok THEN [dest EXCEPT ![name] = NoCollection] ELSE dest
             /\ log' = Append(log, Call("delete", pass, name, ok, 0, << >>))
             /\ faults' = faults + IsInjected(ok, dest[name].exists)
             /\ runFaults' = runFaults + IsInjected(ok, dest[name].exists)
    /\ pc' = "create"
    /\ UNCHANGED << source, ghosts, pass, pageNum, page, exitCode >>

\* CreateCollection as it would be without gracefulExit() in its catch block
CreateCollection_CarriesOn ==
    /\ pc = "create"
    /\ LET name == CheckCollectionSchema(SchemaOf(pass))
       IN  \E ok \in CreateOutcomes(name) :
             /\ dest' = IF ok THEN [dest EXCEPT ![name] = Collection(<< >>)] ELSE dest
             /\ log' = Append(log, Call("create", pass, name, ok, 0, << >>))
             /\ faults' = faults + IsInjected(ok, ~dest[name].exists)
             /\ runFaults' = runFaults + IsInjected(ok, ~dest[name].exists)
    /\ pc' = "fetch"
    /\ pageNum' = 0
    /\ UNCHANGED << source, ghosts, pass, page, exitCode >>

\* checkCollection, second try block: create the collection, exit on failure
CreateCollection ==
    /\ pc = "create"
    /\ LET name == CheckCollectionSchema(SchemaOf(pass))
       IN  \E ok \in CreateOutcomes(name) :
             /\ dest' = IF ok THEN [dest EXCEPT ![name] = Collection(<< >>)] ELSE dest
             /\ log' = Append(log, Call("create", pass, name, ok, 0, << >>))
             /\ faults' = faults + IsInjected(ok, ~dest[name].exists)
             /\ runFaults' = runFaults + IsInjected(ok, ~dest[name].exists)
             /\ IF ok
                  THEN pc' = "fetch" /\ exitCode' = exitCode
                  ELSE gracefulExit(DefaultExitCode)
    /\ pageNum' = 0
    /\ UNCHANGED << source, ghosts, pass, page >>

\* NextPage as it would be with the upload of a page not awaited: the next
\* page is read while the page just yielded has not been uploaded
NextPage_RunsAhead ==
    /\ pc = "fetch"
    /\ page' = dataGenerator(pass, pageNum)
    /\ log' = Append(log, Call("fetch", pass, pass, TRUE, pageNum, page'))
    /\ pc' = IF Len(page') = 0
               THEN (IF pass = "climbs" THEN "checkAreas" ELSE "exit")
               ELSE "fetch"
    /\ pageNum' = IF Len(page') = 0 THEN pageNum ELSE pageNum + 1
    /\ UNCHANGED << source, ghosts, dest, pass, exitCode, faults, runFaults >>

\* one turn of the generator's loop: await the page at pageNum, return when
\* it is empty, yield it otherwise
NextPage ==
    /\ pc = "fetch"
    /\ page' = dataGenerator(pass, pageNum)
    /\ log' = Append(log, Call("fetch", pass, pass, TRUE, pageNum, page'))
    /\ pc' = IF Len(page') = 0
               THEN (IF pass = "climbs" THEN "checkAreas" ELSE "exit")
               ELSE "upload"
    /\ UNCHANGED << source, ghosts, dest, pass, pageNum, exitCode, faults, runFaults >>

\* UploadChunk as it would be without uploadChunk's test of chunk.length
UploadChunk_NoEmptyCheck ==
    /\ pc = "upload"
    /\ IF MapThrows(pass, page)
         THEN /\ pc' = "rejected"
              /\ UNCHANGED << dest, log, faults, runFaults, pageNum >>
         ELSE /\ LET name == SchemaOf(pass)
                     chunk == MapConvert(pass, page)
                 IN  \E ok \in ImportOutcomes(name) :
                       /\ dest' = IF ok
                                    THEN [dest EXCEPT ![name] =
                                             Collection(dest[name].docs \o chunk)]
                                    ELSE dest
                       /\ log' = Append(log, Call("import", pass, name, ok, pageNum, chunk))
                       /\ faults' = faults + IsInjected(ok, dest[name].exists)
                       /\ runFaults' = runFaults + IsInjected(ok, dest[name].exists)
              /\ pageNum' = pageNum + 1
              /\ pc' = "fetch"
    /\ UNCHANGED << source, ghosts, pass, page, exitCode >>

\* The body of the for await loop: uploadChunk(client, schema, chunk.map(convert)),
\* then the generator's pageNum += 1. When chunk.map(convert) throws,
\* uploadChunk is not called and the error leaves processMongoCollection, the
\* pass and onDBConnected, none of which catches it: the promise of the job
\* is rejected, the generator is not resumed and gracefulExit is not called.
UploadChunk ==
    /\ pc = "upload"
    /\ IF MapThrows(pass, page)
         THEN /\ pc' = "rejected"
              /\ UNCHANGED << dest, log, faults, runFaults, pageNum >>
         ELSE /\ LET name == SchemaOf(pass)
                     chunk == MapConvert(pass, page)
                 IN  IF Len(chunk) = 0
                       THEN UNCHANGED << dest, log, faults, runFaults >>
                       ELSE \E ok \in ImportOutcomes(name) :
                              /\ dest' = IF ok
                                           THEN [dest EXCEPT ![name] =
                                                    Collection(dest[name].docs \o chunk)]
                                           ELSE dest
                              /\ log' = Append(log, Call("import", pass, name, ok, pageNum, chunk))
                              /\ faults' = faults + IsInjected(ok, dest[name].exists)
                              /\ runFaults' = runFaults + IsInjected(ok, dest[name].exists)
              /\ pageNum' = pageNum + 1
              /\ pc' = "fetch"
    /\ UNCHANGED << source, ghosts, pass, page, exitCode >>

\* the last statement of onDBConnected: await gracefulExit()
Finish ==
    /\ pc = "exit"
    /\ gracefulExit(DefaultExitCode)
    /\ UNCHANGED << source, ghosts, dest, pass, pageNum, page, log, faults, runFaults >>

\* the job is invoked again, against the same source and the destination as
\* the last invocation left it
Invoke ==
    /\ pc = "exited"
    /\ run < MaxRuns
    /\ run' = run + 1
    /\ prevDest' = dest
    /\ prevFaults' = runFaults
    /\ pc' = "start"
    /\ pass' = "none"
    /\ pageNum' = 0
    /\ page' = << >>
    /\ exitCode' = NoExit
    /\ log' = << >>
    /\ runFaults' = 0
    /\ UNCHANGED << source, dest, faults >>

Next ==
    \/ OnDBConnected
    \/ UpdateClimbTypesense
    \/ UpdateAreaTypesense
    \/ DeleteCollection
    \/ CreateCollection
    \/ NextPage
    \/ UploadChunk
    \/ Finish
    \/ Invoke

Spec == Init /\ [][Next]_vars


\* the steps of one invocation
JobNext ==
    \/ OnDBConnected
    \/ UpdateClimbTypesense
    \/ UpdateAreaTypesense
    \/ DeleteCollection
    \/ CreateCollection
    \/ NextPage
    \/ UploadChunk
    \/ Finish

\* One invocation, every awaited call of which settles (with success or
\* failure), so that the continuation of the await is run: the job takes its
\* next step whenever it has one.
LiveSpec == Init /\ [][JobNext]_vars /\ WF_vars(JobNext)

----------------------------------------------------------------------------
(* The loop body called on its own *)

Coordinates == { << lng, lat >> : lng \in 0..MaxCoord, lat \in 0..MaxCoord }

\* the well-formed joined climb records: the optional description and
\* first-ascent text present or not, any coordinates
WellFormedClimbs ==
    { [ climb_id    |-> Muuid(201),
        name        |-> 1,
        areaRef     |-> AreaId(1),
        description |-> d,
        fa          |-> f,
        yds         |-> "5.9",
        lnglat      |-> c,
        ancestors   |-> << "id-1" >>,
        pathTokens  |-> << "A" >> ]
      : d \in { Missing, "text" }, f \in { Missing, "fa" }, c \in Coordinates }

\* the area records of the type the transformer reads: area_name present or
\* not (doc.area_name ?? ''), any coordinates
AreaTypeRecords ==
    { [ area_id       |-> AreaId(1),
        area_name     |-> n,
        ancestors     |-> << "id-1" >>,
        pathTokens    |-> << "A" >>,
        lnglat        |-> c,
        leaf          |-> FALSE,
        isDestination |-> FALSE,
        totalClimbs   |-> 0,
        density       |-> 0 ]
      : n \in { Missing, "A" }, c \in Coordinates }

\* the well-formed area records, those AreaSchema admits: area_name, lat, lng
\* and area_id are required, area_id is a String
WellFormedAreas ==
    { [ area_id    |-> StringId(101),
        area_name  |-> "A",
        ancestors  |-> << "id-1" >>,
        pathTokens |-> << "A" >>,
        lat        |-> c[2],
        lng        |-> c[1],
        leaf       |-> FALSE,
        aggregate  |-> [ density |-> 0, totalClimbs |-> 0 ] ]
      : c \in Coordinates }

WellFormed(p) ==
    IF p = "climbs" THEN WellFormedClimbs ELSE WellFormedAreas \cup AreaTypeRecords

\* the chunks the loop body is called with: the empty one and those of one
\* well-formed record
Chunks(p) == { << >> } \cup { << doc >> : doc \in WellFormed(p) }

\* uploadChunk(client, schema, chunk.map(convert)) called as the loop body
\* calls it, outside a run of the job (run = 0), on any chunk
BodyInit ==
    /\ envNode = "typesense.example"
    /\ envKey = "xyz"
    /\ argv = { }
    /\ chunkSize \in 1..MaxChunkSize
    /\ areas = << >>
    /\ climbs = << >>
    /\ dest \in [Collections -> InitialCollections]
    /\ pc = "upload"
    /\ pass \in { "climbs", "areas" }
    /\ pageNum = 0
    /\ page \in Chunks(pass)
    /\ exitCode = NoExit
    /\ log = << >>
    /\ run = 0
    /\ faults = 0
    /\ runFaults = 0
    /\ prevDest = dest
    /\ prevFaults = 0

InitCalls == Init \/ BodyInit

NextCalls ==
    \/ run >= 1 /\ Next
    \/ run = 0 /\ UploadChunk

\* the job, and the loop body called on its own
SpecCalls == InitCalls /\ [][NextCalls]_vars

----------------------------------------------------------------------------
(* What the claims speak of *)

Passes == { "climbs", "areas" }

\* the records a pass pages through
SourceOf(p) == IF p = "climbs" THEN JoinedClimbs ELSE areas

\* the calls of one kind a pass has issued in this invocation, in order
CallsOf(p, op) == SelectSeq(log, LAMBDA e : e.pass = p /\ e.op = op)

EnvMissing == envNode = "" \/ envKey = ""

\* the pass has read its terminating empty page
PassDone(p) == \E k \in 1..Len(CallsOf(p, "fetch")) : CallsOf(p, "fetch")[k].docs = << >>

\* some create call of this invocation failed
CreateFailed == \E i \in 1..Len(log) : log[i].op = "create" /\ ~log[i].ok

Requested(p) == IF p = "climbs" THEN "--climbs" \in argv ELSE "--areas" \in argv

----------------------------------------------------------------------------
\* C1: each pass provisions its own destination collection: every delete and
\* create of a pass is issued on that pass's collection (climbs pass: the
\* climb collection, areas pass: the area collection), so every bulk import
\* of a pass goes to a collection that the same pass dropped and created
\* before.
C1_OwnCollectionProvisioned ==
    \A i \in 1..Len(log) :
        /\ log[i].op \in { "delete", "create" } => log[i].coll = SchemaOf(log[i].pass)
        /\ log[i].op = "import" =>
              \E j \in 1..(i - 1) :
                  /\ log[j].op = "create"
                  /\ log[j].ok
                  /\ log[j].pass = log[i].pass
                  /\ log[j].coll = log[i].coll

----------------------------------------------------------------------------
\* C2: when the host or the API key is absent, no delete, create or import
\* call (indeed no call at all) is ever issued, whatever the flags, the
\* destination is left as it was, and the only way on is the exit with code 1.
C2_NoCredentialsNoCalls ==
    EnvMissing =>
        /\ log = << >>
        /\ dest = prevDest
        /\ pc \in { "start", "exited" }
        /\ pc = "exited" => exitCode = 1

C2_Witness ==
    /\ envNode = ""
    /\ envKey # ""
    /\ argv = { "--climbs", "--areas" }
    /\ Len(areas) > 0
    /\ pc = "exited"
    /\ exitCode = 1

----------------------------------------------------------------------------
\* C3: a failed create ends the process there: it is the last call of the
\* invocation (no page is read, no import issued, no later pass provisioned
\* or started) and the process has exited.
C3_CreateFailureIsFatal ==
    \A i \in 1..Len(log) :
        (log[i].op = "create" /\ ~log[i].ok) =>
            /\ i = Len(log)
            /\ pc = "exited"
            /\ CallsOf(log[i].pass, "fetch") = << >>
            /\ CallsOf(log[i].pass, "import") = << >>

\* the create of the climbs pass failed although the areas pass was asked for
\* and both sources hold records
C3_Witness ==
    /\ pc = "exited"
    /\ argv = { "--climbs", "--areas" }
    /\ Len(areas) > 0
    /\ Len(JoinedClimbs) > 0
    /\ Len(log) = 2
    /\ log[2].op = "create"
    /\ log[2].pass = "climbs"
    /\ ~log[2].ok

----------------------------------------------------------------------------
\* C4: the exit code is non-zero exactly when the run ended on a missing host
\* or key or on a failed create, and zero exactly when the run completed all
\* requested passes.
C4_ExitCodeTellsFailure ==
    pc = "exited" =>
        /\ exitCode # 0 <=> (EnvMissing \/ CreateFailed)
        /\ exitCode = 0 <=> (~EnvMissing /\ \A p \in Passes : Requested(p) => PassDone(p))

----------------------------------------------------------------------------
\* the records of page n (counted from 0) of src, by offsets: those at
\* n * chunkSize .. min((n + 1) * chunkSize, N) - 1
RecordsAt(src, n) ==
    LET left == Len(src) - n * chunkSize
        cnt  == IF left <= 0 THEN 0 ELSE Min(chunkSize, left)
    IN  [i \in 1..cnt |-> src[n * chunkSize + i]]

\* some create call of pass p succeeded in this invocation
Created(p) ==
    \E k \in 1..Len(CallsOf(p, "create")) : CallsOf(p, "create")[k].ok

\* some import of this invocation failed
ImportFailed == \E i \in 1..Len(log) : log[i].op = "import" /\ ~log[i].ok

\* a bulk import has been attempted for every page of the source of pass p,
\* in page order and each with that page's documents, none twice
EveryPageAttempted(p) ==
    LET im == CallsOf(p, "import")
    IN  /\ Len(im) = CeilDiv(Len(SourceOf(p)), chunkSize)
        /\ \A k \in 1..Len(im) :
              /\ im[k].page = k - 1
              /\ im[k].docs = MapConvert(p, RecordsAt(SourceOf(p), k - 1))

\* C5: chunk-level fault isolation: an import, failed or not, is followed by
\* the read of the next page of the same pass and by nothing else (a failed
\* chunk is not re-attempted and does not stop the run); and once an import
\* has failed, the process goes on to reach its exit call, where, unless a
\* create failed, the exit code is zero and every requested pass has read
\* its source to the end and attempted an import for every page of it.
C5_ChunkFaultIsolation ==
    /\ [](\A i \in 1..Len(log) :
            log[i].op = "import" =>
                /\ i = Len(log) => pc = "fetch"
                /\ i < Len(log) =>
                      /\ log[i + 1].op = "fetch"
                      /\ log[i + 1].pass = log[i].pass
                      /\ log[i + 1].page = log[i].page + 1)
    /\ [](ImportFailed =>
            <>(/\ pc = "exited"
               /\ ~CreateFailed =>
                     /\ exitCode = 0
                     /\ \A p \in Passes :
                           Requested(p) => (PassDone(p) /\ EveryPageAttempted(p))))

----------------------------------------------------------------------------
\* the page reads of pass p that returned records
NonEmptyPages(p) == SelectSeq(CallsOf(p, "fetch"), LAMBDA e : e.docs # << >>)

\* C6: pagination: the k-th page read of a pass is page k - 1 and returns the
\* records at offsets (k-1)*chunkSize .. min(k*chunkSize, N) - 1; an empty
\* page is the last read of the pass; and once it is read the pass has read
\* ceil(N / chunkSize) non-empty pages that, put end to end, are the source,
\* the last of them with N mod chunkSize records (chunkSize when that is 0),
\* and exactly one empty page.
C6_Pagination ==
    \A p \in Passes :
        LET f   == CallsOf(p, "fetch")
            ne  == NonEmptyPages(p)
            src == SourceOf(p)
            N   == Len(src)
        IN  /\ \A k \in 1..Len(f) :
                  /\ f[k].page = k - 1
                  /\ f[k].docs = RecordsAt(src, k - 1)
                  /\ f[k].docs = << >> => k = Len(f)
            /\ PassDone(p) =>
                  /\ Len(ne) = CeilDiv(N, chunkSize)
                  /\ Len(f) = Len(ne) + 1
                  /\ Flatten([k \in 1..Len(ne) |-> ne[k].docs]) = src
                  /\ N > 0 =>
                        Len(ne[Len(ne)].docs) =
                            (IF N % chunkSize = 0 THEN chunkSize ELSE N % chunkSize)

\* three areas read in pages of two: a full page, a page of one, an empty page
C6_Witness ==
    /\ Len(areas) = 3
    /\ chunkSize = 2
    /\ PassDone("areas")
    /\ Len(CallsOf("areas", "fetch")) = 3
    /\ Len(CallsOf("areas", "fetch")[2].docs) = 1

----------------------------------------------------------------------------
\* no import of pass p failed in this invocation
NoUploadFailure(p) ==
    \A k \in 1..Len(CallsOf(p, "import")) : CallsOf(p, "import")[k].ok

\* C7: full regeneration: after a pass has run to its end with no failed
\* upload, the documents of its kind's destination collection are exactly the
\* transformed records of its source, one per record and nothing else,
\* whatever the collection held before.
C7_FullRegeneration ==
    pc = "exited" =>
        \A p \in Passes :
            (PassDone(p) /\ NoUploadFailure(p)) =>
                dest[SchemaOf(p)].docs = MapConvert(p, SourceOf(p))

----------------------------------------------------------------------------
\* C8: idempotence: when the job has run twice against the same source with
\* no injected failure in either run, each requested kind's collection holds
\* after the second run what it held after the first.
C8_Idempotent ==
    (run >= 2 /\ pc = "exited" /\ ~EnvMissing /\ prevFaults = 0 /\ runFaults = 0) =>
        \A p \in Passes :
            Requested(p) => dest[SchemaOf(p)] = prevDest[SchemaOf(p)]

----------------------------------------------------------------------------
\* the path tokens of the area whose identifier is id, when exactly one area
\* has that identifier
OwnerTokens(id) ==
    LET owners == { i \in 1..Len(areas) : areas[i].area_id = id }
    IN  IF Cardinality(owners) = 1
          THEN areas[CHOOSE i \in owners : TRUE].pathTokens
          ELSE << "no single owner" >>

\* C9: path-token snapshot: every area document handed to an import carries
\* the pathTokens of the area with its identifier, and every climb document
\* carries as areaNames the pathTokens of the one area whose area_id is the
\* areaRef of the climb with its identifier.
C9_PathTokenSnapshot ==
    \A i \in 1..Len(log) :
        log[i].op = "import" =>
            \A k \in 1..Len(log[i].docs) :
                LET d == log[i].docs[k]
                IN  IF log[i].pass = "areas"
                      THEN \E a \in 1..Len(areas) :
                              /\ d.areaUUID = ToUUID(areas[a].area_id)
                              /\ d.pathTokens = OwnerTokens(areas[a].area_id)
                      ELSE \E c \in 1..Len(climbs) :
                              /\ d.climbUUID = ToUUID(climbs[c].climb_id)
                              /\ d.areaNames = OwnerTokens(climbs[c].areaRef)

\* areas A > B > C were uploaded as [A], [A,B], [A,B,C] and a climb of C as
\* [A,B,C]
C9_Witness ==
    /\ pc = "exited"
    /\ chunkSize = 2
    /\ Len(areas) = 3
    /\ Len(CallsOf("areas", "import")) = 2
    /\ CallsOf("areas", "import")[1].docs[1].pathTokens = << "A" >>
    /\ CallsOf("areas", "import")[1].docs[2].pathTokens = << "A", "B" >>
    /\ CallsOf("areas", "import")[2].docs[1].pathTokens = << "A", "B", "C" >>
    /\ Len(CallsOf("climbs", "import")) >= 1
    /\ climbs[1].areaRef = AreaId(3)
    /\ CallsOf("climbs", "import")[1].docs[1].areaNames = << "A", "B", "C" >>

----------------------------------------------------------------------------
\* the invocation has come to its end: the process has exited or the promise
\* of the job is rejected
Ended == pc \in { "exited", "rejected" }

\* C10 as it is stated: whenever a delete has failed, exactly one create has
\* been issued by the pass by the end of the invocation, and the pass has
\* gone on to paging and upload: it has read its source to the end and
\* issued an import for every non-empty page.
C10_AsStated ==
    \A i \in 1..Len(log) :
        (log[i].op = "delete" /\ ~log[i].ok /\ Ended) =>
            LET p == log[i].pass
            IN  /\ Len(CallsOf(p, "create")) = 1
                /\ PassDone(p)
                /\ Len(CallsOf(p, "import")) = CeilDiv(Len(SourceOf(p)), chunkSize)

\* C10: provisioning tolerates a failed delete as far as the create: every
\* create is issued right after a delete on the same collection in the same
\* pass; a failed delete is followed by that one create call and never by an
\* exit; when that create fails it is the last call and the process has
\* exited; when it succeeds page 0 is read next, and a non-empty page 0 is
\* followed by its import unless the transformer throws on one of its
\* records, in which case nothing follows.
C10_FailedDeleteTolerated ==
    /\ \A i \in 1..Len(log) :
          log[i].op = "create" =>
              /\ i > 1
              /\ log[i - 1].op = "delete"
              /\ log[i - 1].pass = log[i].pass
              /\ log[i - 1].coll = log[i].coll
    /\ \A i \in 1..Len(log) :
          (log[i].op = "delete" /\ ~log[i].ok) =>
              LET p == log[i].pass
              IN  /\ i = Len(log) => pc = "create"
                  /\ i < Len(log) =>
                        /\ log[i + 1].op = "create"
                        /\ log[i + 1].coll = log[i].coll
                        /\ Len(CallsOf(p, "create")) = 1
                  /\ (i < Len(log) /\ ~log[i + 1].ok) =>
                        /\ i + 1 = Len(log)
                        /\ pc = "exited"
                  /\ (i < Len(log) /\ log[i + 1].ok) =>
                        /\ i + 1 = Len(log) => pc = "fetch"
                        /\ i + 1 < Len(log) =>
                              /\ log[i + 2].op = "fetch"
                              /\ log[i + 2].pass = p
                              /\ log[i + 2].page = 0
                              /\ (log[i + 2].docs # << >> /\ i + 2 < Len(log)) =>
                                    /\ ~MapThrows(p, log[i + 2].docs)
                                    /\ log[i + 3].op = "import"
                                    /\ log[i + 3].pass = p
                                    /\ log[i + 3].page = 0
                              /\ (log[i + 2].docs # << >> /\ i + 2 = Len(log)) =>
                                    IF MapThrows(p, log[i + 2].docs)
                                      THEN pc \in { "upload", "rejected" }
                                      ELSE pc = "upload"

\* the areas collection did not exist, its delete failed, the create
\* succeeded and the areas were uploaded
C10_Witness ==
    /\ pc = "exited"
    /\ argv = { "--areas" }
    /\ Len(log) >= 4
    /\ log[1].op = "delete"
    /\ ~log[1].ok
    /\ log[2].op = "create"
    /\ log[2].ok
    /\ Len(CallsOf("areas", "import")) >= 1
    /\ CallsOf("areas", "import")[1].ok
    /\ PassDone("areas")

----------------------------------------------------------------------------
\* the other entity kind
Other(p) == IF p = "climbs" THEN "areas" ELSE "climbs"

\* C11: flag selection: with neither flag no call at all is issued (no
\* delete, create, page read or import) and the process exits normally; with
\* only one flag no operation of the other kind's pass is performed: no call
\* is issued by the other pass, and the other kind's destination collection
\* is neither deleted, created nor imported into.
C11_FlagSelection ==
    /\ argv = { } =>
          /\ log = << >>
          /\ pc = "exited" => (EnvMissing \/ exitCode = 0)
    /\ \A p \in Passes :
          (Requested(p) /\ ~Requested(Other(p))) =>
              \A i \in 1..Len(log) :
                  /\ log[i].pass = p
                  /\ log[i].op \in { "delete", "create", "import" } =>
                        log[i].coll # SchemaOf(Other(p))

----------------------------------------------------------------------------
\* x, or the empty string when x is missing
TextOf(x) == IF x = Missing THEN "" ELSE x

\* C12: the transformers are total on well-formed records: when the loop body
\* has been run on a page of well-formed records, an import has been issued
\* with one document per record; and the documents handed to an import are,
\* one for one, those of the records of the page: a missing climb
\* description, first-ascent text or area name has become the empty string, a
\* present one is kept, no text field is left missing, and the point
\* [longitude, latitude] has become the pair [latitude, longitude].
C12_TransformDefaults ==
    /\ (run = 0 /\ pc # "upload" /\ page # << >>) =>
          /\ Len(log) = 1
          /\ log[1].op = "import"
          /\ Len(log[1].docs) = Len(page)
    /\ (Len(log) > 0 /\ log[Len(log)].op = "import") =>
          LET e == log[Len(log)]
          IN  /\ Len(e.docs) = Len(page)
              /\ \A k \in 1..Len(page) :
                    LET d == e.docs[k]
                        r == page[k]
                    IN  IF e.pass = "climbs"
                          THEN /\ d.climbDesc = TextOf(r.description)
                               /\ d.fa = TextOf(r.fa)
                               /\ d.climbDesc # Missing
                               /\ d.fa # Missing
                               /\ d.cragLatLng = << r.lnglat[2], r.lnglat[1] >>
                          ELSE /\ d.name = TextOf(r.area_name)
                               /\ d.name # Missing
                               /\ d.areaLatLng = << r.lnglat[2], r.lnglat[1] >>

----------------------------------------------------------------------------
\* the page numbers pass p has read are 0, 1, 2, ... each once
NoPageReadTwice(p) ==
    \A k \in 1..Len(CallsOf(p, "fetch")) : CallsOf(p, "fetch")[k].page = k - 1

\* C13: termination: whatever deletes and uploads fail, the process reaches
\* its exit call, and unless a create failed every requested pass has then
\* read its source to the empty page; no page is ever read twice.
C13_Terminates ==
    /\ [](\A p \in Passes : NoPageReadTwice(p))
    /\ <>(/\ pc = "exited"
          /\ (~EnvMissing /\ ~CreateFailed) =>
                \A p \in Passes : Requested(p) => PassDone(p))

----------------------------------------------------------------------------
\* C14: chunk bounds: every import call carries at least 1 and at most
\* chunkSize documents; the uploader given an empty batch issues no import
\* call (the destination and the log stay as they were); and in a run of the
\* job the uploader is never handed an empty page.
C14_ChunkBounds ==
    /\ \A i \in 1..Len(log) :
          log[i].op = "import" =>
              (1 <= Len(log[i].docs) /\ Len(log[i].docs) <= chunkSize)
    /\ (run = 0 /\ page = << >>) =>
          /\ log = << >>
          /\ dest = prevDest
    /\ (run >= 1 /\ pc = "upload") => page # << >>

\* three areas in pages of two: imports of two documents and of one, and the
\* empty page read last without an import
C14_Witness ==
    /\ run = 1
    /\ pc = "exited"
    /\ chunkSize = 2
    /\ Len(areas) = 3
    /\ Len(CallsOf("areas", "import")) = 2
    /\ Len(CallsOf("areas", "import")[1].docs) = 2
    /\ Len(CallsOf("areas", "import")[2].docs) = 1
    /\ log[Len(log)].op = "fetch"
    /\ log[Len(log)].docs = << >>

----------------------------------------------------------------------------
\* C15: the passes do not interleave and the climbs pass comes first: no call
\* of the climbs pass follows a call of the areas pass; within a pass the
\* calls come one after the other as delete, create, then for each page its
\* read followed by its import: page 0 is read right after the successful
\* create, a non-empty page's read is followed at once by the import of that
\* page (by nothing at all when the transformer threw on it), and a later
\* page is read only right after the import of the page before it.
C15_PassesInOrder ==
    /\ \A i \in 1..Len(log) : \A j \in i..Len(log) :
          log[i].pass = "areas" => log[j].pass = "areas"
    /\ \A i \in 1..Len(log) :
          /\ (log[i].op = "delete" /\ i > 1) =>
                (log[i - 1].op = "fetch" /\ log[i - 1].docs = << >>
                    /\ log[i - 1].pass = "climbs" /\ log[i].pass = "areas")
          /\ (log[i].op = "fetch" /\ log[i].page = 0) =>
                /\ i > 1
                /\ log[i - 1].op = "create"
                /\ log[i - 1].ok
                /\ log[i - 1].pass = log[i].pass
          /\ (log[i].op = "fetch" /\ log[i].page > 0) =>
                /\ log[i - 1].op = "import"
                /\ log[i - 1].page = log[i].page - 1
                /\ log[i - 1].pass = log[i].pass
          /\ (log[i].op = "fetch" /\ log[i].docs # << >>) =>
                /\ i = Len(log) => pc \in { "upload", "rejected" }
                /\ i < Len(log) =>
                      /\ log[i + 1].op = "import"
                      /\ log[i + 1].page = log[i].page
                      /\ log[i + 1].pass = log[i].pass

\* with both flags, the climbs pass read and uploaded two pages and the areas
\* pass then uploaded its own
C15_Witness ==
    /\ pc = "exited"
    /\ argv = { "--climbs", "--areas" }
    /\ Len(CallsOf("climbs", "import")) = 2
    /\ PassDone("climbs")
    /\ Len(CallsOf("areas", "import")) >= 2
    /\ PassDone("areas")

----------------------------------------------------------------------------
\* the source climbs whose areaRef is the area_id of some area
Owned == { j \in 1..Len(climbs) :
              \E a \in 1..Len(areas) : areas[a].area_id = climbs[j].areaRef }

\* the documents of all the imports of pass p, in order
Uploaded(p) ==
    Flatten([k \in 1..Len(CallsOf(p, "import")) |-> CallsOf(p, "import")[k].docs])

\* C16: the climb join is an inner join: a climb whose areaRef matches no
\* area is in no page and has no document in any import; once the climbs
\* pass has read its source to the end, the documents it handed to imports
\* are as many as the source climbs that have an owning area, and with no
\* failed upload that is the number of documents the climb collection grew by.
C16_InnerJoin ==
    /\ \A k \in 1..Len(CallsOf("climbs", "fetch")) :
          \A n \in 1..Len(CallsOf("climbs", "fetch")[k].docs) :
              \E j \in Owned :
                  /\ climbs[j].climb_id = CallsOf("climbs", "fetch")[k].docs[n].climb_id
                  /\ climbs[j].areaRef = CallsOf("climbs", "fetch")[k].docs[n].areaRef
    /\ \A n \in 1..Len(Uploaded("climbs")) :
          \E j \in Owned : Uploaded("climbs")[n].climbUUID = ToUUID(climbs[j].climb_id)
    /\ (pc = "exited" /\ PassDone("climbs")) =>
          /\ Len(Uploaded("climbs")) = Cardinality(Owned)
          /\ NoUploadFailure("climbs") =>
                Len(dest[climbSchema].docs) - Len(prevDest[climbSchema].docs)
                    = Cardinality(Owned)

\* of two climbs the first matches no area: one document was uploaded
C16_Witness ==
    /\ pc = "exited"
    /\ Len(climbs) = 2
    /\ Len(areas) >= 1
    /\ climbs[1].areaRef = NoSuchArea
    /\ Owned = { 2 }
    /\ PassDone("climbs")
    /\ NoUploadFailure("climbs")
    /\ Len(Uploaded("climbs")) = 1
    /\ dest[climbSchema].exists


====
